---- MODULE Spec2Model ----
(***************************************************************************)
(* A model of openai_fastmcp: the tool handlers and the lifespan of        *)
(* app.py, and OpenAIService and AzureBlobUploader of                      *)
(* openai_service.py.                                                      *)
(*                                                                         *)
(* Every request is a coroutine.  An action of the model runs one request  *)
(* from one suspension point (an await of the provider or of the blob      *)
(* store) to the next one, so requests interleave exactly at the awaits.   *)
(* Python strings are TLA+ strings, built and taken apart character by     *)
(* character.                                                              *)
(***************************************************************************)
EXTENDS Integers, Sequences, FiniteSets, TLC

VARIABLES config, lifespan, task, blobs, clock, uuids

vars == <<config, lifespan, task, blobs, clock, uuids>>

(***************************************************************************)
(* Bounds of the model.                                                    *)
(***************************************************************************)
\* the longest response.data of images.generate
MaxItems == 2
\* the clock runs over the seconds 0..MaxTime
MaxTime == 1
\* the number of uploads started by all requests together
MaxUploads == 3

\* the longest list of content chunks of a chat reply
MaxChunks == 2

\* the requests: two, so that one can run while the other is suspended
Tasks == {1, 2}

(***************************************************************************)
(* Python values.                                                          *)
(***************************************************************************)
None == "<None>"

Truthy(v) == v # None /\ v # ""

UpperAlphabet == "ABCDEFGHIJKLMNOPQRSTUVWXYZ"

LowerAlphabet == "abcdefghijklmnopqrstuvwxyz"

HexDigits == "0123456789abcdef"

CharAt(s, i) == SubSeq(s, i, i)

RECURSIVE IndexIn(_, _, _)
IndexIn(c, s, i) ==
    IF i > Len(s) THEN 0
    ELSE IF CharAt(s, i) = c THEN i
    ELSE IndexIn(c, s, i + 1)

LowerChar(c) ==
    LET k == IndexIn(c, UpperAlphabet, 1)
    IN  IF k = 0 THEN c ELSE CharAt(LowerAlphabet, k)

\* str.lower()
RECURSIVE lower(_)
lower(s) ==
    IF s = "" THEN ""
    ELSE LowerChar(CharAt(s, 1)) \o lower(SubSeq(s, 2, Len(s)))

\* str.lstrip(c) for a one-character c
RECURSIVE lstrip(_, _)
lstrip(s, c) ==
    IF s # "" /\ CharAt(s, 1) = c THEN lstrip(SubSeq(s, 2, Len(s)), c) ELSE s

\* str.rstrip(c) for a one-character c
RECURSIVE rstrip(_, _)
rstrip(s, c) ==
    IF s # "" /\ CharAt(s, Len(s)) = c THEN rstrip(SubSeq(s, 1, Len(s) - 1), c) ELSE s

\* str.strip(c) for a one-character c
strip(s, c) == rstrip(lstrip(s, c), c)

\* sub in s
Contains(s, sub) ==
    \E i \in 1..(Len(s) - Len(sub) + 1) : SubSeq(s, i, i + Len(sub) - 1) = sub

StartsWith(s, pre) == Len(s) >= Len(pre) /\ SubSeq(s, 1, Len(pre)) = pre

\* "/".join(segments)
RECURSIVE JoinSlash(_)
JoinSlash(segments) ==
    IF segments = <<>> THEN ""
    ELSE IF Len(segments) = 1 THEN segments[1]
    ELSE segments[1] \o "/" \o JoinSlash(Tail(segments))

\* the list of segments with nothing filtered out
NonEmptySegments_keep_all(segments) == segments

\* [segment for segment in segments if segment]
RECURSIVE NonEmptySegments(_)
NonEmptySegments(segments) ==
    IF segments = <<>> THEN <<>>
    ELSE IF Truthy(segments[1]) THEN <<segments[1]>> \o NonEmptySegments(Tail(segments))
    ELSE NonEmptySegments(Tail(segments))

RECURSIVE ZeroPad(_, _)
ZeroPad(s, width) == IF Len(s) >= width THEN s ELSE ZeroPad("0" \o s, width)

RECURSIVE HexOf(_)
HexOf(n) ==
    IF n < 16 THEN CharAt(HexDigits, n + 1)
    ELSE HexOf(n \div 16) \o CharAt(HexDigits, (n % 16) + 1)

(***************************************************************************)
(* Module constants of openai_service.py.                                  *)
(***************************************************************************)
_DEFAULT_CONTENT_TYPE == "application/octet-stream"

_STORAGE_REQUIRED_MSG ==
    "Azure Blob Storage uploads are not configured. Set AZURE_STORAGE_CONNECTION_STRING, "
    \o "AZURE_BLOB_CONTAINER, and AZURE_BLOB_PUBLIC_BASE_URL to enable asset URLs."

_AUDIO_CONTENT_TYPES ==
    [mp3 |-> "audio/mpeg", wav |-> "audio/wav", flac |-> "audio/flac",
     opus |-> "audio/ogg", ogg |-> "audio/ogg", aac |-> "audio/aac", m4a |-> "audio/mp4"]

(***************************************************************************)
(* Exceptions: the type and the message.                                   *)
(***************************************************************************)
NoExc == [type |-> "", msg |-> ""]

ValueError(msg) == [type |-> "ValueError", msg |-> msg]

RuntimeError(msg) == [type |-> "RuntimeError", msg |-> msg]

\* what the provider client raises when a call fails (openai.APIError)
APIError == [type |-> "APIError", msg |-> "provider call failed"]

(***************************************************************************)
(* Configuration: the provider variant and the optional storage config.    *)
(***************************************************************************)
NoStorage == [configured |-> FALSE]

StorageConfigs ==
    { [configured |-> TRUE, public_base_url |-> "https://cdn.example.net",
       path_prefix |-> None, image_root |-> "images", audio_root |-> "audio",
       video_root |-> "videos"],
      [configured |-> TRUE, public_base_url |-> "https://cdn.example.net/pub",
       path_prefix |-> "gen/v1", image_root |-> "img", audio_root |-> "snd",
       video_root |-> "vid"] }

Providers == {"openai", "azure"}

\* OpenAIService.__init__: the uploader exists iff a storage config was given
_blob_uploader == config.storage.configured

(***************************************************************************)
(* Pure helpers of OpenAIService.                                          *)
(***************************************************************************)
legacy_aliases == [standard |-> "medium", hd |-> "high"]

allowed_qualities == {"low", "medium", "high", "auto"}

\* the sizes with a legacy one left in
allowed_sizes_legacy == {"1024x1024", "1024x1536", "1536x1024", "auto", "512x512"}

allowed_sizes == {"1024x1024", "1024x1536", "1536x1024", "auto"}

\* the normalization without the legacy aliases
normalized_quality_no_alias(quality) == lower(quality)

normalized_quality(quality) ==
    LET n == lower(quality)
    IN  IF n \in DOMAIN legacy_aliases THEN legacy_aliases[n] ELSE n

normalized_size(size) == lower(size)

quality_error(quality) ==
    ValueError("quality must be one of auto, high, low, medium (received: '"
               \o quality \o "')")

size_error(size) ==
    ValueError("size must be one of 1024x1024, 1024x1536, 1536x1024, auto (received: '"
               \o size \o "')")

count_error == ValueError("count must be between 1 and 10")

seconds_error == ValueError("seconds must be one of 4, 8, or 12")

variant_error == ValueError("variant must be video, thumbnail, or spritesheet")

\* a range check in the place of the membership test
allowed_seconds_range == 4..12

allowed_seconds == {4, 8, 12}

allowed_variants == {"video", "thumbnail", "spritesheet"}

azure_video_error == RuntimeError("Azure OpenAI does not currently support video generation")

video_job_error(job) ==
    RuntimeError("Video job " \o job.id \o " did not complete successfully (status="
                 \o job.status \o ")")

_audio_content_type(response_format) ==
    LET k == lower(response_format)
    IN  IF k \in DOMAIN _AUDIO_CONTENT_TYPES THEN _AUDIO_CONTENT_TYPES[k]
        ELSE _DEFAULT_CONTENT_TYPE

\* _video_variant_meta that takes every variant for the video itself
_video_variant_meta_video_only(variant) == <<"mp4", "video/mp4">>

_video_variant_meta(variant) ==
    LET normalized == lower(variant)
        mapping == [video |-> <<"mp4", "video/mp4">>,
                    thumbnail |-> <<"png", "image/png">>,
                    spritesheet |-> <<"json", "application/json">>]
    IN  IF normalized \in DOMAIN mapping THEN mapping[normalized]
        ELSE <<"bin", _DEFAULT_CONTENT_TYPE>>

\* the outcome of a call: a value returned or an exception raised
Returned(v) == [raised |-> FALSE, value |-> v, exc |-> NoExc]

Raised(e) == [raised |-> TRUE, value |-> None, exc |-> e]

\* _require_blob_url with a message that leaves out _STORAGE_REQUIRED_MSG
_require_blob_url_bare(blob_url, asset_type) ==
    IF Truthy(blob_url) THEN Returned(blob_url)
    ELSE Raised(RuntimeError("Unable to produce a publicly accessible " \o asset_type
                             \o " asset URL."))

\* _require_blob_url that hands on whatever it is given
_require_blob_url_passthrough(blob_url, asset_type) == Returned(blob_url)

_require_blob_url(blob_url, asset_type) ==
    IF Truthy(blob_url) THEN Returned(blob_url)
    ELSE Raised(RuntimeError("Unable to produce a publicly accessible " \o asset_type
                             \o " asset URL. " \o _STORAGE_REQUIRED_MSG))

\* base64.b64decode (validate=False): characters outside the alphabet are
\* discarded, a wrong padding raises binascii.Error
b64decode(s) ==
    CASE s = "aGk=" -> Returned("hi")
      [] s = "aGV5" -> Returned("hey")
      [] s = "!!!!" -> Returned("")
      [] OTHER -> Raised([type |-> "binascii.Error", msg |-> "Incorrect padding"])

\* _persist_media_bytes up to the upload: what it does with the payload
_persist_media_bytes(payload, extension, content_type) ==
    IF ~Truthy(payload) THEN [do |-> "return", exc |-> NoExc]
    ELSE IF ~_blob_uploader THEN [do |-> "raise", exc |-> RuntimeError(_STORAGE_REQUIRED_MSG)]
    ELSE [do |-> "upload", exc |-> NoExc,
          extension |-> lower(IF lstrip(extension, ".") # "" THEN lstrip(extension, ".")
                              ELSE "bin"),
          content_type |-> IF Truthy(content_type) THEN content_type
                           ELSE _DEFAULT_CONTENT_TYPE]

\* _persist_media_bytes without its except clause
_persist_media_bytes_reraise(uploaded) == [out |-> uploaded, logged |-> <<>>]

\* _persist_media_bytes from the end of the await of upload: the URL is
\* returned, an exception is logged and None returned
_persist_media_bytes_except(uploaded) ==
    IF uploaded.raised THEN [out |-> Returned(None), logged |-> <<uploaded.exc>>]
    ELSE [out |-> uploaded, logged |-> <<>>]

\* _persist_base64_media up to its call of _persist_media_bytes: a payload
\* that does not decode is logged and None returned
_persist_base64_media(base64_payload) ==
    IF ~Truthy(base64_payload)
    THEN [do |-> "return", out |-> Returned(None), logged |-> <<>>]
    ELSE LET d == b64decode(base64_payload)
         IN  IF d.raised /\ d.exc.type \in {"binascii.Error", "ValueError"}
             THEN [do |-> "return", out |-> Returned(None), logged |-> <<d.exc>>]
             ELSE IF d.raised THEN [do |-> "return", out |-> d, logged |-> <<>>]
             ELSE [do |-> "persist", out |-> d, logged |-> <<>>]

(***************************************************************************)
(* AzureBlobUploader.                                                      *)
(***************************************************************************)
\* datetime.utcnow().strftime("%Y%m%dT%H%M%S"), the clock counting the
\* seconds after 2026-01-01T00:00:00
strftime(now) == "20260101T0000" \o ZeroPad(ToString(now), 2)

\* uuid.uuid4().hex of the n-th UUID drawn: 32 lowercase hex digits.  uuid4 is
\* taken at its contract: it never returns a value it has returned before
uuid4_hex(n) == ZeroPad(HexOf(n), 32)

\* _root_for_category that knows the plural names only
_root_for_category_plural_only(category) ==
    LET c == IF Truthy(category) THEN category ELSE "media"
        normalized == IF strip(c, "/") # "" THEN strip(c, "/") ELSE "media"
        mapping == [images |-> config.storage.image_root,
                    audio |-> config.storage.audio_root,
                    videos |-> config.storage.video_root]
    IN  IF normalized \in DOMAIN mapping THEN mapping[normalized] ELSE normalized

_root_for_category(category) ==
    LET c == IF Truthy(category) THEN category ELSE "media"
        normalized == IF strip(c, "/") # "" THEN strip(c, "/") ELSE "media"
        mapping == [images |-> config.storage.image_root,
                    image |-> config.storage.image_root,
                    audio |-> config.storage.audio_root,
                    videos |-> config.storage.video_root,
                    video |-> config.storage.video_root]
    IN  IF normalized \in DOMAIN mapping THEN mapping[normalized] ELSE normalized

\* _build_blob_name with a file name made of the timestamp alone
_build_blob_name_no_uuid(category, extension, now, unique) ==
    JoinSlash(NonEmptySegments(<<config.storage.path_prefix, _root_for_category(category),
                                 strftime(now) \o "." \o extension>>))

_build_blob_name(category, extension, now, unique) ==
    LET timestamp == strftime(now)
        sanitized_category == _root_for_category(category)
        filename == timestamp \o "-" \o unique \o "." \o extension
    IN  JoinSlash(NonEmptySegments(<<config.storage.path_prefix, sanitized_category, filename>>))

blob_url_for(blob_name) == config.storage.public_base_url \o "/" \o blob_name

(***************************************************************************)
(* Requests.  A request is one call of a tool of create_server, numbered   *)
(* in the order of arrival; pc is the await it is suspended at, calls the  *)
(* provider and storage calls it has issued so far, in order.  Of the      *)
(* response of images.generate the model draws the number of items when    *)
(* the call returns and the payload of an item when the loop reads it:     *)
(* data holds the items read so far, in the provider's order.              *)
(***************************************************************************)
NoReq == [none |-> TRUE]

NoJob == [id |-> "", status |-> ""]

NoPending == [blob_name |-> ""]

NoResult == [none |-> TRUE]

IdleTask ==
    [pc |-> "idle", tool |-> "", req |-> NoReq, calls |-> <<>>, data_len |-> 0, data |-> <<>>,
     idx |-> 0, images |-> <<>>, job |-> NoJob, bytes |-> None,
     pending |-> NoPending, logged |-> <<>>, exc |-> NoExc, result |-> NoResult]

\* the server has started: the lifespan context is suspended at its yield, the
\* client and the uploader are open and nobody has asked to close them
Serving == [pc |-> "yield", client_aclose |-> 0, client_closed |-> FALSE,
            uploader_aclose |-> 0, uploader_closed |-> FALSE, exc |-> NoExc]

Init ==
    /\ config \in [provider : Providers, storage : {NoStorage} \cup StorageConfigs]
    /\ lifespan = Serving
    /\ task = [t \in Tasks |-> IdleTask]
    /\ blobs = {}
    /\ clock = 0
    /\ uuids = 0

\* request t arrives: it is the next one in the order of arrival
Arrives(t) == task[t].pc = "idle" /\ \A u \in Tasks : u < t => task[u].pc # "idle"

\* the request ends with an exception raised to the caller of the tool
Raise(t, tk, e) ==
    task' = [task EXCEPT ![t] = [tk EXCEPT !.pc = "raised", !.exc = e]]

\* the request ends with a result mapping returned to the caller of the tool
Return(t, tk, r) ==
    task' = [task EXCEPT ![t] = [tk EXCEPT !.pc = "returned", !.result = r]]

\* the request suspends in an await of a provider call
Await(t, tk, call) ==
    task' = [task EXCEPT ![t] = [tk EXCEPT !.pc = call.op, !.calls = Append(@, call)]]

\* AzureBlobUploader.upload up to its await of upload_blob: the blob name is
\* built from the clock and a fresh UUID before the request suspends
upload(t, tk, data, category, extension, content_type) ==
    \E now \in clock..MaxTime :
        uuids < MaxUploads /\
        LET unique == uuid4_hex(uuids + 1)
            blob_name == _build_blob_name(category, extension, now, unique)
            call == [op |-> "upload_blob", blob_name |-> blob_name, data |-> data,
                     category |-> category, extension |-> extension,
                     content_type |-> content_type, item |-> tk.idx,
                     now |-> now, unique |-> unique]
        IN  /\ clock' = now
            /\ uuids' = uuids + 1
            /\ task' = [task EXCEPT ![t] =
                            [tk EXCEPT !.pc = "upload_blob", !.pending = call,
                                       !.calls = Append(@, call)]]

\* _require_blob_url(await _persist_media_bytes(...)) up to the await of the upload
persist_media_bytes(t, tk, payload, category, extension, content_type, asset_type) ==
    LET p == _persist_media_bytes(payload, extension, content_type)
    IN  CASE p.do = "return" ->
                /\ Raise(t, tk, _require_blob_url(None, asset_type).exc)
                /\ UNCHANGED <<clock, uuids>>
          [] p.do = "raise" ->
                /\ Raise(t, tk, p.exc)
                /\ UNCHANGED <<clock, uuids>>
          [] OTHER -> upload(t, tk, payload, category, p.extension, p.content_type)

\* _require_blob_url(await _persist_base64_media(...)) up to the await of the upload
persist_base64_media(t, tk, base64_payload, category, extension, content_type, asset_type) ==
    LET b == _persist_base64_media(base64_payload)
        tl == [tk EXCEPT !.logged = @ \o b.logged]
    IN  IF b.do = "return"
        THEN /\ Raise(t, tl, IF b.out.raised THEN b.out.exc
                             ELSE _require_blob_url(b.out.value, asset_type).exc)
             /\ UNCHANGED <<clock, uuids>>
        ELSE persist_media_bytes(t, tl, b.out.value, category, extension, content_type,
                                 asset_type)

\* OpenAIService.generate_image: the loop over response.data, from item tk.idx
\* until the next upload is awaited, an exception is raised or the loop ends
image_loop(t, tk, payloads) ==
    IF tk.idx > tk.data_len
    THEN /\ Return(t, tk, [images |-> tk.images])
         /\ UNCHANGED <<clock, uuids>>
    ELSE \E b64_json \in payloads :
             persist_base64_media(t, [tk EXCEPT !.data = Append(@, b64_json)], b64_json,
                                  "images", "png", "image/png", "image")

(***************************************************************************)
(* The image tool.                                                         *)
(***************************************************************************)
\* create_server.generate_image and OpenAIService.generate_image up to the
\* await of images.generate; size and quality are the strings the caller sent
generate_image(t, size, quality, count) ==
    /\ Arrives(t)
    /\ LET tk == [task[t] EXCEPT !.tool = "generate_image",
                                 !.req = [size |-> size, quality |-> quality,
                                          count |-> count]]
       IN  IF ~(1 <= count /\ count <= 10) THEN Raise(t, tk, count_error)
           ELSE IF normalized_quality(quality) \notin allowed_qualities
                THEN Raise(t, tk, quality_error(quality))
           ELSE IF normalized_size(size) \notin allowed_sizes
                THEN Raise(t, tk, size_error(size))
           ELSE Await(t, tk, [op |-> "images.generate", size |-> normalized_size(size),
                              quality |-> normalized_quality(quality), n |-> count])
    /\ UNCHANGED <<config, lifespan, blobs, clock, uuids>>

\* images.generate returns a response with data_len items in response.data
images_generate_returns(t, data_len, payloads) ==
    /\ task[t].pc = "images.generate"
    /\ image_loop(t, [task[t] EXCEPT !.data_len = data_len, !.idx = 1], payloads)
    /\ UNCHANGED <<config, lifespan, blobs>>

(***************************************************************************)
(* The speech tool.                                                        *)
(***************************************************************************)
\* synthesize_speech that looks for the uploader before it calls the provider
synthesize_speech_checks_storage(t, response_format) ==
    /\ Arrives(t)
    /\ LET tk == [task[t] EXCEPT !.tool = "synthesize_speech",
                                 !.req = [response_format |-> response_format]]
       IN  IF ~_blob_uploader THEN Raise(t, tk, RuntimeError(_STORAGE_REQUIRED_MSG))
           ELSE Await(t, tk, [op |-> "audio.speech.create",
                              response_format |-> response_format])
    /\ UNCHANGED <<config, lifespan, blobs, clock, uuids>>

\* create_server.synthesize_speech and OpenAIService.generate_audio up to the
\* await of audio.speech.create
synthesize_speech(t, response_format) ==
    /\ Arrives(t)
    /\ Await(t, [task[t] EXCEPT !.tool = "synthesize_speech",
                                !.req = [response_format |-> response_format]],
             [op |-> "audio.speech.create", response_format |-> response_format])
    /\ UNCHANGED <<config, lifespan, blobs, clock, uuids>>

\* audio.speech.create returns; the request awaits speech.aread()
speech_create_returns(t) ==
    /\ task[t].pc = "audio.speech.create"
    /\ Await(t, task[t], [op |-> "speech.aread"])
    /\ UNCHANGED <<config, lifespan, blobs, clock, uuids>>

\* speech.aread() returns the audio bytes
speech_aread_returns(t, audio_bytes) ==
    /\ task[t].pc = "speech.aread"
    /\ LET fmt == task[t].req.response_format
       IN  persist_media_bytes(t, [task[t] EXCEPT !.bytes = audio_bytes, !.idx = 1],
                               audio_bytes, "audio", fmt, _audio_content_type(fmt), "audio")
    /\ UNCHANGED <<config, lifespan, blobs>>

(***************************************************************************)
(* The video tool.                                                         *)
(***************************************************************************)
\* generate_video without the check of the provider
generate_video_no_provider_check(t, seconds, size, variant) ==
    /\ Arrives(t)
    /\ LET tk == [task[t] EXCEPT !.tool = "generate_video",
                                 !.req = [seconds |-> seconds, size |-> size,
                                          variant |-> variant]]
       IN  IF seconds \notin allowed_seconds THEN Raise(t, tk, seconds_error)
           ELSE IF variant \notin allowed_variants THEN Raise(t, tk, variant_error)
           ELSE Await(t, tk, [op |-> "videos.create_and_poll", seconds |-> seconds,
                              size |-> size])
    /\ UNCHANGED <<config, lifespan, blobs, clock, uuids>>

\* create_server.generate_video and OpenAIService.generate_video up to the
\* await of videos.create_and_poll
generate_video(t, seconds, size, variant) ==
    /\ Arrives(t)
    /\ LET tk == [task[t] EXCEPT !.tool = "generate_video",
                                 !.req = [seconds |-> seconds, size |-> size,
                                          variant |-> variant]]
       IN  IF seconds \notin allowed_seconds THEN Raise(t, tk, seconds_error)
           ELSE IF variant \notin allowed_variants THEN Raise(t, tk, variant_error)
           ELSE IF config.provider = "azure" THEN Raise(t, tk, azure_video_error)
           ELSE Await(t, tk, [op |-> "videos.create_and_poll", seconds |-> seconds,
                              size |-> size])
    /\ UNCHANGED <<config, lifespan, blobs, clock, uuids>>

\* create_and_poll_returns that gives up on the status failed only
create_and_poll_returns_failed_only(t, video_job) ==
    /\ task[t].pc = "videos.create_and_poll"
    /\ LET tk == [task[t] EXCEPT !.job = video_job]
       IN  IF video_job.status = "failed" THEN Raise(t, tk, video_job_error(video_job))
           ELSE Await(t, tk, [op |-> "videos.download_content", id |-> video_job.id,
                              variant |-> tk.req.variant])
    /\ UNCHANGED <<config, lifespan, blobs, clock, uuids>>

\* videos.create_and_poll returns the job in the state the polling ended in
create_and_poll_returns(t, video_job) ==
    /\ task[t].pc = "videos.create_and_poll"
    /\ LET tk == [task[t] EXCEPT !.job = video_job]
       IN  IF video_job.status # "completed" THEN Raise(t, tk, video_job_error(video_job))
           ELSE Await(t, tk, [op |-> "videos.download_content", id |-> video_job.id,
                              variant |-> tk.req.variant])
    /\ UNCHANGED <<config, lifespan, blobs, clock, uuids>>

\* videos.download_content returns; the request awaits binary.aread()
download_content_returns(t) ==
    /\ task[t].pc = "videos.download_content"
    /\ Await(t, task[t], [op |-> "binary.aread"])
    /\ UNCHANGED <<config, lifespan, blobs, clock, uuids>>

\* binary_aread_returns that answers the caller without persisting the asset
binary_aread_returns_no_upload(t, video_bytes) ==
    /\ task[t].pc = "binary.aread"
    /\ Return(t, [task[t] EXCEPT !.bytes = video_bytes],
              [video_id |-> task[t].job.id, status |-> task[t].job.status,
               variant |-> task[t].req.variant, byte_length |-> Len(video_bytes),
               blob_url |-> None])
    /\ UNCHANGED <<config, lifespan, blobs, clock, uuids>>

\* binary.aread() returns the bytes of the asset
binary_aread_returns(t, video_bytes) ==
    /\ task[t].pc = "binary.aread"
    /\ LET meta == _video_variant_meta(task[t].req.variant)
       IN  persist_media_bytes(t, [task[t] EXCEPT !.bytes = video_bytes, !.idx = 1],
                               video_bytes, "videos", meta[1], meta[2], "video")
    /\ UNCHANGED <<config, lifespan, blobs>>

(***************************************************************************)
(* The chat tool.  The content of the reply is None, a string, a list of   *)
(* chunks or a value of another type; a chunk is a dict with the keys type *)
(* and text (None for a key it lacks) or a value that is no dict.          *)
(***************************************************************************)
NoParam == [none |-> TRUE]

\* chat_completion that compares response_format as it was given
response_format_param_exact(response_format) ==
    IF ~Truthy(response_format) THEN NoParam
    ELSE IF response_format = "json" THEN [type |-> "json_object"]
    ELSE [type |-> response_format]

\* OpenAIService.chat_completion: response_format_param
response_format_param(response_format) ==
    IF ~Truthy(response_format) THEN NoParam
    ELSE IF lower(response_format) = "json" THEN [type |-> "json_object"]
    ELSE [type |-> response_format]

ContentNone == [kind |-> "None"]

ContentStr(s) == [kind |-> "str", value |-> s]

ContentList(chunks) == [kind |-> "list", chunks |-> chunks]

\* a content that is neither None nor a string nor iterable, by its str()
ContentOther(repr) == [kind |-> "other", repr |-> repr]

DictChunk(type, text) == [dict |-> TRUE, type |-> type, text |-> text, repr |-> ""]

\* a chunk that is no dict, by its str()
OtherChunk(repr) == [dict |-> FALSE, type |-> None, text |-> None, repr |-> repr]

\* str(chunk): the repr of a dict, the keys in the order of insertion
str(chunk) ==
    IF ~chunk.dict THEN chunk.repr
    ELSE LET type == IF chunk.type = None THEN <<>>
                     ELSE <<"'type': '" \o chunk.type \o "'">>
             text == IF chunk.text = None THEN <<>>
                     ELSE <<"'text': '" \o chunk.text \o "'">>
             items == type \o text
         IN  "{" \o (IF items = <<>> THEN ""
                     ELSE IF Len(items) = 1 THEN items[1]
                     ELSE items[1] \o ", " \o items[2]) \o "}"

\* _extract_text that skips the chunks that are no dicts
RECURSIVE join_chunks_dicts_only(_)
join_chunks_dicts_only(content) ==
    IF content = <<>> THEN ""
    ELSE LET chunk == Head(content)
             piece == IF ~chunk.dict THEN ""
                      ELSE IF chunk.type = "text" /\ Truthy(chunk.text) THEN chunk.text
                      ELSE IF chunk.type = "tool_call" THEN str(chunk)
                      ELSE ""
         IN  piece \o join_chunks_dicts_only(Tail(content))

\* _extract_text: the loop over the chunks and the join
RECURSIVE join_chunks(_)
join_chunks(content) ==
    IF content = <<>> THEN ""
    ELSE LET chunk == Head(content)
             piece == IF chunk.dict
                      THEN IF chunk.type = "text" /\ Truthy(chunk.text) THEN chunk.text
                           ELSE IF chunk.type = "tool_call" THEN str(chunk)
                           ELSE ""
                      ELSE str(chunk)
         IN  piece \o join_chunks(Tail(content))

_extract_text(content) ==
    CASE content.kind = "None" -> ""
      [] content.kind = "str" -> content.value
      [] content.kind = "list" -> join_chunks(content.chunks)
      [] OTHER -> content.repr

IndexError == [type |-> "IndexError", msg |-> "list index out of range"]

\* create_server.chat_completion and OpenAIService.chat_completion up to the
\* await of chat.completions.create
chat_completion(t, response_format) ==
    /\ Arrives(t)
    /\ Await(t, [task[t] EXCEPT !.tool = "chat_completion",
                                !.req = [response_format |-> response_format]],
             [op |-> "chat.completions.create",
              response_format |-> response_format_param(response_format)])
    /\ UNCHANGED <<config, lifespan, blobs, clock, uuids>>

\* chat.completions.create returns a completion with these choices, each
\* given by the content of its message
chat_create_returns(t, choices) ==
    /\ task[t].pc = "chat.completions.create"
    /\ IF choices = <<>> THEN Raise(t, task[t], IndexError)
       ELSE Return(t, task[t], [text |-> _extract_text(choices[1]), raw |-> choices])
    /\ UNCHANGED <<config, lifespan, blobs, clock, uuids>>

(***************************************************************************)
(* The ends of the awaits shared by the tools.                             *)
(***************************************************************************)
ProviderOps ==
    {"chat.completions.create", "images.generate", "audio.speech.create", "speech.aread", "videos.create_and_poll",
     "videos.download_content", "binary.aread"}

\* the awaited provider call raises: nothing catches it, the tool raises it
provider_raises(t) ==
    /\ task[t].pc \in ProviderOps
    /\ Raise(t, task[t], APIError)
    /\ UNCHANGED <<config, lifespan, blobs, clock, uuids>>

\* blob_client.upload_blob(data, overwrite=True) with this name
upload_blob(name, call, t) ==
    {b \in blobs : b.blob_name # name}
        \cup {[blob_name |-> name, data |-> call.data, content_type |-> call.content_type,
               task |-> t, item |-> call.item]}

\* the result mapping of generate_audio and of generate_video
media_result(tk, blob_url) ==
    IF tk.tool = "synthesize_speech"
    THEN [format |-> tk.req.response_format, byte_length |-> Len(tk.bytes),
          blob_url |-> blob_url]
    ELSE [video_id |-> tk.job.id, status |-> tk.job.status, variant |-> tk.req.variant,
          byte_length |-> Len(tk.bytes), blob_url |-> blob_url]

\* what upload_blob raises when the upload fails (azure.core.exceptions.AzureError)
AzureError == [type |-> "AzureError", msg |-> "upload_blob failed"]

\* after_persist that hands the artifact of a failed upload to the uploader again
after_persist_retry(t, tk0, uploaded, payloads) ==
    IF uploaded.raised
    THEN upload(t, tk0, task[t].pending.data, task[t].pending.category,
                task[t].pending.extension, task[t].pending.content_type)
    ELSE IF tk0.tool = "generate_image"
    THEN image_loop(t, [tk0 EXCEPT !.images = Append(@, [blob_url |-> uploaded.value,
                                                          item |-> tk0.idx]),
                                   !.idx = @ + 1], payloads)
    ELSE /\ Return(t, tk0, media_result(tk0, uploaded.value))
         /\ UNCHANGED <<clock, uuids>>

\* the await of upload ends: _persist_media_bytes returns to its caller, which
\* goes on with _require_blob_url
after_persist(t, tk0, uploaded, payloads) ==
    LET p == _persist_media_bytes_except(uploaded)
        tk == [tk0 EXCEPT !.logged = @ \o p.logged]
        r == IF p.out.raised THEN p.out
             ELSE _require_blob_url(p.out.value,
                                    IF tk.tool = "generate_image" THEN "image"
                                    ELSE IF tk.tool = "synthesize_speech" THEN "audio"
                                    ELSE "video")
    IN  IF r.raised
        THEN /\ Raise(t, tk, r.exc)
             /\ UNCHANGED <<clock, uuids>>
        ELSE IF tk.tool = "generate_image"
        THEN image_loop(t, [tk EXCEPT !.images = Append(@, [blob_url |-> r.value,
                                                             item |-> tk.idx]),
                                      !.idx = @ + 1], payloads)
        ELSE /\ Return(t, tk, media_result(tk, r.value))
             /\ UNCHANGED <<clock, uuids>>

\* upload_blob succeeds: upload returns the public URL of the blob
upload_blob_returns(t, payloads) ==
    /\ task[t].pc = "upload_blob"
    /\ blobs' = upload_blob(task[t].pending.blob_name, task[t].pending, t)
    /\ after_persist(t, [task[t] EXCEPT !.pending = NoPending],
                     Returned(blob_url_for(task[t].pending.blob_name)), payloads)
    /\ UNCHANGED <<config, lifespan>>

\* upload_blob_raises that deletes what the request has stored so far
upload_blob_raises_rollback(t) ==
    /\ task[t].pc = "upload_blob"
    /\ after_persist(t, [task[t] EXCEPT !.pending = NoPending], Raised(AzureError), {})
    /\ blobs' = {b \in blobs : b.task # t}
    /\ UNCHANGED <<config, lifespan>>

\* upload_blob raises: _persist_media_bytes logs the exception and returns None
upload_blob_raises(t) ==
    /\ task[t].pc = "upload_blob"
    /\ after_persist(t, [task[t] EXCEPT !.pending = NoPending], Raised(AzureError), {})
    /\ UNCHANGED <<config, lifespan, blobs>>

(***************************************************************************)
(* Inputs.  The arguments of the tools are drawn from the full sets when   *)
(* one request is followed through (SpecInputs) and from the core sets     *)
(* when requests run concurrently (Spec).                                  *)
(***************************************************************************)
ImageSizeInputs(full) ==
    IF full THEN {"1024x1024", "1024X1536", "AUTO", "512x512", ""} ELSE {"AUTO"}

ImageQualityInputs(full) ==
    IF full THEN {"standard", "hd", "LOW", "High", "auto", "medium", "HD", "ultra", ""}
    ELSE {"hd"}

CountInputs(full) == IF full THEN {0, 1, 10, 11} ELSE {1}

AudioFormatInputs(full) == IF full THEN {"mp3", ".WAV", "xyz", ""} ELSE {"mp3"}

SecondsInputs(full) == IF full THEN {0, 4, 5, 8, 12, 13} ELSE {8}

VideoSizeInputs == {"1280x720"}

VariantInputs(full) ==
    IF full THEN {"video", "thumbnail", "spritesheet", "gif"} ELSE {"thumbnail"}

\* response.data[i].b64_json: decodable, absent, undecodable, decoding to b""
FullItemPayloads == {"aGk=", None, "a", "!!!!"}

CoreItemPayloads == {"aGk=", "a"}

ItemPayloads(full) == IF full THEN FullItemPayloads ELSE CoreItemPayloads

MediaBytes(full) == IF full THEN {"BYTES", ""} ELSE {"BYTES"}

\* the job create_and_poll returns: its id and the status the polling ended in
FullVideoJobs ==
    {[id |-> "video_123", status |-> status] :
         status \in {"completed", "failed", "queued", "in_progress"}}

CoreVideoJobs == {[id |-> "video_123", status |-> status] : status \in {"completed", "failed"}}

VideoJobs(full) == IF full THEN FullVideoJobs ELSE CoreVideoJobs

ChatFormatInputs(full) ==
    IF full THEN {None, "", "json", "JSON", "Json", "text", "json_schema"} ELSE {"json"}

\* the chunks: text, text with an empty text, text without a text, a tool
\* call, a dict of another type, a dict without a type, a value that is no dict
ChunkInputs ==
    {DictChunk("text", "Hello"), DictChunk("text", ""), DictChunk("text", None),
     DictChunk("tool_call", None), DictChunk("image_url", None), DictChunk(None, "stray"),
     OtherChunk("raw")}

\* choice.message.content: absent, a string, a value of another type, a list
\* of up to MaxChunks chunks
FullChatContents ==
    {ContentNone, ContentStr(""), ContentStr("plain reply"), ContentOther("42")}
        \cup {ContentList(chunks) :
                  chunks \in UNION {[1..n -> ChunkInputs] : n \in 0..MaxChunks}}

CoreChatContents == {ContentStr("plain reply")}

\* completion.choices: no choice, or one choice with this content
FullChatChoices == {<<>>} \cup {<<content>> : content \in FullChatContents}

CoreChatChoices == {<<content>> : content \in CoreChatContents}

ChatChoices(full) == IF full THEN FullChatChoices ELSE CoreChatChoices

\* one step of request t
Request(t, full) ==
    \/ \E size \in ImageSizeInputs(full), quality \in ImageQualityInputs(full),
          count \in CountInputs(full) :
           generate_image(t, size, quality, count)
    \/ \E data_len \in 0..MaxItems : images_generate_returns(t, data_len, ItemPayloads(full))
    \/ \E response_format \in AudioFormatInputs(full) : synthesize_speech(t, response_format)
    \/ speech_create_returns(t)
    \/ \E audio_bytes \in MediaBytes(full) : speech_aread_returns(t, audio_bytes)
    \/ \E seconds \in SecondsInputs(full), size \in VideoSizeInputs,
          variant \in VariantInputs(full) :
           generate_video(t, seconds, size, variant)
    \/ \E video_job \in VideoJobs(full) : create_and_poll_returns(t, video_job)
    \/ download_content_returns(t)
    \/ \E video_bytes \in MediaBytes(full) : binary_aread_returns(t, video_bytes)
    \/ \E response_format \in ChatFormatInputs(full) : chat_completion(t, response_format)
    \/ \E choices \in ChatChoices(full) : chat_create_returns(t, choices)
    \/ provider_raises(t)
    \/ upload_blob_returns(t, ItemPayloads(full))
    \/ upload_blob_raises(t)

(***************************************************************************)
(* Spec: the requests of Tasks in flight at once.                          *)
(***************************************************************************)
Next == \E t \in Tasks : Request(t, FALSE)

Spec == Init /\ [][Next]_vars

(***************************************************************************)
(* SpecInputs: one request, its arguments drawn from the full sets.        *)
(***************************************************************************)
NextInputs == Request(1, TRUE)

SpecInputs == Init /\ [][NextInputs]_vars

(***************************************************************************)
(* SpecUploader: AzureBlobUploader on its own, called with any category.   *)
(***************************************************************************)
\* AzureBlobUploader._root_for_category called with this category
call_root_for_category(t, category) ==
    /\ Arrives(t)
    /\ _blob_uploader
    /\ Return(t, [task[t] EXCEPT !.tool = "_root_for_category",
                                 !.req = [category |-> category]],
              [root |-> _root_for_category(category)])
    /\ UNCHANGED <<config, lifespan, blobs, clock, uuids>>

\* AzureBlobUploader.upload up to its await of upload_blob
uploader_upload(t, data, category, extension, content_type) ==
    /\ Arrives(t)
    /\ _blob_uploader
    /\ upload(t, [task[t] EXCEPT !.tool = "upload", !.idx = 1,
                                 !.req = [category |-> category, extension |-> extension]],
              data, category, extension, content_type)
    /\ UNCHANGED <<config, lifespan, blobs>>

\* upload_blob succeeds: upload returns f"{public_base_url}/{blob_name}"
uploader_upload_returns(t) ==
    /\ task[t].pc = "upload_blob"
    /\ task[t].tool = "upload"
    /\ blobs' = upload_blob(task[t].pending.blob_name, task[t].pending, t)
    /\ Return(t, [task[t] EXCEPT !.pending = NoPending],
              [blob_url |-> blob_url_for(task[t].pending.blob_name)])
    /\ UNCHANGED <<config, lifespan, clock, uuids>>

\* upload_blob raises: upload catches nothing
uploader_upload_raises(t) ==
    /\ task[t].pc = "upload_blob"
    /\ task[t].tool = "upload"
    /\ Raise(t, [task[t] EXCEPT !.pending = NoPending], AzureError)
    /\ UNCHANGED <<config, lifespan, blobs, clock, uuids>>

\* the categories: the three the service passes, their singular forms, the
\* unknown, the slash-wrapped, the empty and the absent
CategoryInputs ==
    {"images", "image", "audio", "videos", "video", "thumbs", "a/b", "/images/",
     "/thumbs", "", "/", None}

ExtensionInputs == {"png", "bin"}

NextUploader ==
    \/ \E category \in CategoryInputs : call_root_for_category(1, category)
    \/ \E category \in CategoryInputs, extension \in ExtensionInputs :
           uploader_upload(1, "BYTES", category, extension, "image/png")
    \/ uploader_upload_returns(1)
    \/ uploader_upload_raises(1)

SpecUploader == Init /\ [][NextUploader]_vars

(***************************************************************************)
(* SpecLifespan: one request and the shutdown of the server.  The tools    *)
(* and the service keep no record of the shutdown and test nothing before  *)
(* they use the client or the uploader: a request runs whenever the server *)
(* hands it to its tool, before, during or after aclose.                   *)
(***************************************************************************)
\* what closing a client raises when the close fails
CloseError == [type |-> "Exception", msg |-> "close failed"]

\* create_server.lifespan leaves its yield: the finally clause awaits
\* service.aclose(), which awaits self.client.aclose()
lifespan_exit ==
    /\ lifespan.pc = "yield"
    /\ lifespan' = [lifespan EXCEPT !.pc = "client.aclose", !.client_aclose = @ + 1]
    /\ UNCHANGED <<config, task, blobs, clock, uuids>>

\* self.client.aclose() returns: aclose goes on to the uploader, if there is one
client_aclose_returns ==
    /\ lifespan.pc = "client.aclose"
    /\ lifespan' = IF _blob_uploader
                   THEN [lifespan EXCEPT !.client_closed = TRUE, !.pc = "uploader.aclose",
                                         !.uploader_aclose = @ + 1]
                   ELSE [lifespan EXCEPT !.client_closed = TRUE, !.pc = "done"]
    /\ UNCHANGED <<config, task, blobs, clock, uuids>>

\* self.client.aclose() raises: nothing catches it, aclose and the lifespan
\* end with the exception; the client is left closed or not
client_aclose_raises ==
    /\ lifespan.pc = "client.aclose"
    /\ \E closed \in BOOLEAN :
           lifespan' = [lifespan EXCEPT !.client_closed = closed, !.pc = "raised",
                                        !.exc = CloseError]
    /\ UNCHANGED <<config, task, blobs, clock, uuids>>

\* self._blob_uploader.aclose() returns: AzureBlobUploader.aclose has closed
\* its service client
uploader_aclose_returns ==
    /\ lifespan.pc = "uploader.aclose"
    /\ lifespan' = [lifespan EXCEPT !.uploader_closed = TRUE, !.pc = "done"]
    /\ UNCHANGED <<config, task, blobs, clock, uuids>>

\* self._blob_uploader.aclose() raises
uploader_aclose_raises ==
    /\ lifespan.pc = "uploader.aclose"
    /\ \E closed \in BOOLEAN :
           lifespan' = [lifespan EXCEPT !.uploader_closed = closed, !.pc = "raised",
                                        !.exc = CloseError]
    /\ UNCHANGED <<config, task, blobs, clock, uuids>>

NextLifespan ==
    \/ Request(1, FALSE)
    \/ lifespan_exit
    \/ client_aclose_returns
    \/ client_aclose_raises
    \/ uploader_aclose_returns
    \/ uploader_aclose_raises

SpecLifespan == Init /\ [][NextLifespan]_vars

(***************************************************************************)
(* Vocabulary of the properties.                                           *)
(***************************************************************************)
\* the indices of the calls of request t with this name
CallsOf(t, op) == {i \in DOMAIN task[t].calls : task[t].calls[i].op = op}

\* request t has handed an artifact to the persistence step
ReachedPersistence(t) ==
    IF task[t].tool = "generate_image" THEN task[t].data # <<>>
    ELSE task[t].tool \in {"synthesize_speech", "generate_video"} /\ task[t].bytes # None

\* the message names the three settings of the storage configuration
NamesStorageConfig(msg) ==
    /\ Contains(msg, "AZURE_STORAGE_CONNECTION_STRING")
    /\ Contains(msg, "AZURE_BLOB_CONTAINER")
    /\ Contains(msg, "AZURE_BLOB_PUBLIC_BASE_URL")

\* the exception is the missing-asset-URL error of _require_blob_url
IsMissingUrlError(e) ==
    /\ e.type = "RuntimeError"
    /\ StartsWith(e.msg, "Unable to produce a publicly accessible ")
    /\ Contains(e.msg, " asset URL.")

\* the payload the request handed to persistence last is empty
LastPayloadEmpty(t) ==
    IF task[t].tool = "generate_image"
    THEN task[t].data # <<>> /\ task[t].data[Len(task[t].data)] \in {None, "", "!!!!"}
    ELSE task[t].bytes = ""

(***************************************************************************)
(* C1.  Without a storage config, every generate_image, generate_audio and *)
(* generate_video call that reaches persistence ends in a raised error     *)
(* whose message names the missing storage configuration (the three        *)
(* AZURE_ settings); none returns a result mapping, empty payloads         *)
(* included.                                                               *)
(***************************************************************************)
C1_NoStorageRaises ==
    \A t \in Tasks :
        (~config.storage.configured /\ ReachedPersistence(t)) =>
            /\ task[t].pc = "raised"
            /\ task[t].exc.type = "RuntimeError"
            /\ NamesStorageConfig(task[t].exc.msg)
            /\ task[t].result = NoResult

\* without storage, a request that handed an empty payload to persistence has raised
C1_Witness ==
    \E t \in Tasks :
        /\ ~config.storage.configured
        /\ ReachedPersistence(t)
        /\ LastPayloadEmpty(t)
        /\ task[t].pc = "raised"

(***************************************************************************)
(* C2.  As claimed: on the azure provider every generate_video request     *)
(* fails with the unsupported-capability error, whatever its arguments,    *)
(* and issues no provider call and no upload.                              *)
(***************************************************************************)
C2_AzureVideoAlwaysUnsupported ==
    \A t \in Tasks :
        (config.provider = "azure" /\ task[t].tool = "generate_video") =>
            /\ task[t].pc = "raised"
            /\ task[t].exc = RuntimeError("Azure OpenAI does not currently support video generation")
            /\ task[t].calls = <<>>

(***************************************************************************)
(* C2, amended.  On the azure provider every generate_video request fails  *)
(* at once without any provider call or upload; the error is the           *)
(* unsupported-capability error when seconds and variant pass the tool's   *)
(* validation, and the validation error of the tool otherwise.             *)
(***************************************************************************)
C2_AzureVideoFailsFast ==
    \A t \in Tasks :
        (config.provider = "azure" /\ task[t].tool = "generate_video") =>
            /\ task[t].pc = "raised"
            /\ task[t].calls = <<>>
            /\ task[t].result = NoResult
            /\ blobs = {}
            /\ IF task[t].req.seconds \in {4, 8, 12}
                  /\ task[t].req.variant \in {"video", "thumbnail", "spritesheet"}
               THEN task[t].exc = RuntimeError("Azure OpenAI does not currently support video generation")
               ELSE task[t].exc.type = "ValueError"

\* a valid video request on the azure provider has raised the unsupported-capability error
C2_Witness ==
    \E t \in Tasks :
        /\ config.provider = "azure"
        /\ task[t].tool = "generate_video"
        /\ task[t].req.seconds = 8
        /\ task[t].req.variant = "thumbnail"
        /\ task[t].pc = "raised"
        /\ task[t].exc.type = "RuntimeError"

(***************************************************************************)
(* C3.  A video request whose seconds is not 4, 8 or 12 fails with a       *)
(* validation error before any provider or storage interaction: the job    *)
(* is never submitted.                                                     *)
(***************************************************************************)
C3_SecondsValidated ==
    \A t \in Tasks :
        (task[t].tool = "generate_video" /\ task[t].req.seconds \notin {4, 8, 12}) =>
            /\ task[t].pc = "raised"
            /\ task[t].exc.type = "ValueError"
            /\ StartsWith(task[t].exc.msg, "seconds")
            /\ task[t].calls = <<>>
            /\ task[t].job = NoJob
            /\ blobs = {}

\* a video request with seconds = 5 has been rejected
C3_Witness ==
    \E t \in Tasks :
        /\ task[t].tool = "generate_video"
        /\ task[t].req.seconds = 5
        /\ task[t].pc = "raised"

(***************************************************************************)
(* C4.  Image quality normalization is total over a closed set: standard   *)
(* is sent to the provider as medium, hd as high, LOW as low, High as high *)
(* and auto as auto; whatever is sent is one of low, medium, high, auto;   *)
(* a quality outside the closed set (any case of low, medium, high, auto,  *)
(* standard, hd) fails validation and is not passed to the provider.       *)
(***************************************************************************)
C4_Canonical == [standard |-> "medium", hd |-> "high", LOW |-> "low", High |-> "high",
                 auto |-> "auto"]

C4_QualitySent(t) ==
    {task[t].calls[i].quality : i \in CallsOf(t, "images.generate")}

C4_QualityNormalized ==
    \A t \in Tasks :
        task[t].tool = "generate_image" =>
            LET q == task[t].req.quality
                sent == C4_QualitySent(t)
                others_valid == /\ task[t].req.count \in 1..10
                                /\ task[t].req.size \in {"1024x1024", "1024X1536", "AUTO"}
            IN  /\ sent \subseteq {"low", "medium", "high", "auto"}
                /\ Cardinality(sent) <= 1
                /\ (q \in DOMAIN C4_Canonical /\ others_valid) => sent = {C4_Canonical[q]}
                /\ (q \in DOMAIN C4_Canonical) => sent \subseteq {C4_Canonical[q]}
                /\ lower(q) \notin {"low", "medium", "high", "auto", "standard", "hd"} =>
                       /\ task[t].pc = "raised"
                       /\ task[t].exc.type = "ValueError"
                       /\ sent = {}

\* an image request with quality standard has reached the provider as medium
C4_Witness ==
    \E t \in Tasks :
        /\ task[t].tool = "generate_image"
        /\ task[t].req.quality = "standard"
        /\ C4_QualitySent(t) = {"medium"}

(***************************************************************************)
(* C5.  An image request whose size, compared case-insensitively, is not   *)
(* one of 1024x1024, 1024x1536, 1536x1024, auto, or whose count is outside *)
(* 1..10, is rejected with a validation error that names a field of the    *)
(* request that is out of its set (count first, then quality, then size),  *)
(* and images.generate is never called for it.                             *)
(***************************************************************************)
C5_CountBad(t) == task[t].req.count \notin 1..10

C5_SizeBad(t) == lower(task[t].req.size) \notin {"1024x1024", "1024x1536", "1536x1024", "auto"}

C5_QualityBad(t) ==
    lower(task[t].req.quality) \notin {"low", "medium", "high", "auto", "standard", "hd"}

C5_SizeAndCountValidated ==
    \A t \in Tasks :
        (task[t].tool = "generate_image" /\ (C5_SizeBad(t) \/ C5_CountBad(t))) =>
            /\ task[t].pc = "raised"
            /\ task[t].exc.type = "ValueError"
            /\ task[t].calls = <<>>
            /\ C5_CountBad(t) => StartsWith(task[t].exc.msg, "count must be ")
            /\ (~C5_CountBad(t) /\ C5_QualityBad(t)) =>
                   StartsWith(task[t].exc.msg, "quality must be ")
            /\ (~C5_CountBad(t) /\ ~C5_QualityBad(t)) =>
                   StartsWith(task[t].exc.msg, "size must be ")

\* an image request with the size 512x512 and nothing else wrong has been rejected
C5_Witness ==
    \E t \in Tasks :
        /\ task[t].tool = "generate_image"
        /\ task[t].req.size = "512x512"
        /\ task[t].req.count = 10
        /\ task[t].req.quality = "hd"
        /\ task[t].pc = "raised"

(***************************************************************************)
(* C6.  When the job returned by create_and_poll has a status other than   *)
(* completed, generate_video raises a RuntimeError carrying the job id and *)
(* the status; the request has made no call but create_and_poll (nothing   *)
(* downloaded, nothing uploaded, no second submission) and returns no      *)
(* result mapping.                                                         *)
(***************************************************************************)
C6_JobFailureIsFatal ==
    \A t \in Tasks :
        (task[t].job # NoJob /\ task[t].job.status # "completed") =>
            /\ task[t].pc = "raised"
            /\ task[t].exc.type = "RuntimeError"
            /\ Contains(task[t].exc.msg, task[t].job.id)
            /\ Contains(task[t].exc.msg, "status=" \o task[t].job.status)
            /\ Len(task[t].calls) = 1
            /\ task[t].calls[1].op = "videos.create_and_poll"
            /\ task[t].result = NoResult
            /\ blobs = {}

\* a video request whose job ended in_progress has raised
C6_Witness ==
    \E t \in Tasks :
        /\ task[t].job.status = "in_progress"
        /\ task[t].pc = "raised"

(***************************************************************************)
(* C7.  When the upload fails, or the base64 payload of an image does not  *)
(* decode, the persistence step keeps the exception to itself (it is       *)
(* logged): the tool fails with the missing-asset-URL error of             *)
(* _require_blob_url for its asset type, and the storage or decode         *)
(* exception never reaches the caller.                                     *)
(***************************************************************************)
C7_AssetType(t) ==
    IF task[t].tool = "generate_image" THEN "image"
    ELSE IF task[t].tool = "synthesize_speech" THEN "audio" ELSE "video"

C7_Failed(t) ==
    \/ task[t].pc = "raised" /\ task[t].exc.type \in {"AzureError", "binascii.Error"}
    \/ task[t].logged # <<>>
    \/ /\ task[t].tool = "generate_image"
       /\ \E i \in DOMAIN task[t].data : task[t].data[i] = "a"

C7_PersistenceFailureFunnelled ==
    \A t \in Tasks :
        C7_Failed(t) =>
            /\ task[t].pc = "raised"
            /\ IsMissingUrlError(task[t].exc)
            /\ Contains(task[t].exc.msg, " " \o C7_AssetType(t) \o " asset URL.")
            /\ task[t].exc.type \notin {"AzureError", "binascii.Error"}
            /\ task[t].result = NoResult

\* with storage configured, a request whose upload failed has raised
C7_Witness ==
    \E t \in Tasks :
        /\ config.storage.configured
        /\ \E i \in DOMAIN task[t].logged : task[t].logged[i].type = "AzureError"
        /\ task[t].pc = "raised"

(***************************************************************************)
(* C8.  generate_image never ends in a partial success: when it returns,   *)
(* images has one entry per item of response.data, in the provider's       *)
(* order, each with a non-empty blob_url (the URL of the blob uploaded for *)
(* that item); when the persistence of an item fails the call raises and   *)
(* returns no list.                                                        *)
(***************************************************************************)
C8_UploadOfItem(t, k) ==
    {task[t].calls[i].blob_name : i \in {j \in CallsOf(t, "upload_blob") :
                                            task[t].calls[j].item = k}}

C8_NoPartialSuccess ==
    \A t \in Tasks :
        task[t].tool = "generate_image" =>
            /\ task[t].pc = "returned" =>
                   /\ Len(task[t].result.images) = task[t].data_len
                   /\ Len(task[t].data) = task[t].data_len
                   /\ \A k \in DOMAIN task[t].result.images :
                          LET entry == task[t].result.images[k]
                          IN  /\ entry.item = k
                              /\ entry.blob_url \notin {None, ""}
                              /\ \E name \in C8_UploadOfItem(t, k) :
                                     /\ entry.blob_url
                                            = config.storage.public_base_url \o "/" \o name
                                     /\ \E b \in blobs : b.blob_name = name
            /\ task[t].pc # "returned" => task[t].result = NoResult
            /\ (\E k \in DOMAIN task[t].data : task[t].data[k] \in {None, "a", "!!!!"})
                   => task[t].pc = "raised"
            /\ task[t].logged # <<>> => task[t].pc = "raised"

\* an image request has returned a list of two entries
C8_Witness ==
    \E t \in Tasks :
        /\ task[t].tool = "generate_image"
        /\ task[t].pc = "returned"
        /\ Len(task[t].result.images) = 2

(***************************************************************************)
(* C9.  Two persistence calls with the same category and extension that    *)
(* are in flight together, in the same UTC second too, get two distinct    *)
(* blob names (uuid4 never returning a value twice), so that no upload     *)
(* overwrites the blob of another one: every upload that has returned its  *)
(* URL still has its own blob in the container.                            *)
(***************************************************************************)
\* the uploads started so far: the request and the index of the call
C9_Uploads == UNION {{<<t, i>> : i \in CallsOf(t, "upload_blob")} : t \in Tasks}

C9_IsUpload(u) == u[2] \in CallsOf(u[1], "upload_blob")

C9_Call(u) == task[u[1]].calls[u[2]]

\* the upload has returned
C9_Done(u) ==
    /\ C9_IsUpload(u)
    /\ \/ task[u[1]].pc = "returned"
       \/ task[u[1]].tool = "generate_image" /\ C9_Call(u).item <= Len(task[u[1]].images)

C9_DistinctPaths ==
    /\ \A u, v \in C9_Uploads :
           (C9_IsUpload(u) /\ C9_IsUpload(v) /\ u # v) =>
               C9_Call(u).blob_name # C9_Call(v).blob_name
    /\ \A u \in C9_Uploads :
           C9_Done(u) =>
               \E b \in blobs : /\ b.blob_name = C9_Call(u).blob_name
                                /\ b.task = u[1]
                                /\ b.item = C9_Call(u).item

\* two requests are suspended in uploads of the same category and extension
\* whose names were built in the same second
C9_Witness ==
    /\ task[1].pc = "upload_blob"
    /\ task[2].pc = "upload_blob"
    /\ task[1].pending.category = task[2].pending.category
    /\ task[1].pending.extension = task[2].pending.extension
    /\ task[1].pending.now = task[2].pending.now

(***************************************************************************)
(* C10.  Each artifact produced by a provider call is handed to the        *)
(* uploader at most once: no request uploads the same artifact twice, a    *)
(* failed upload is the last call of its request, and every upload and     *)
(* every blob bears a name built by _build_blob_name.                      *)
(***************************************************************************)
C10_Artifacts(t) ==
    IF task[t].tool = "generate_image" THEN Len(task[t].data)
    ELSE IF task[t].bytes # None THEN 1 ELSE 0

C10_UploadedAtMostOnce ==
    /\ \A t \in Tasks :
           LET ups == CallsOf(t, "upload_blob")
           IN  /\ \A i, j \in ups : i # j => task[t].calls[i].item # task[t].calls[j].item
               /\ Cardinality(ups) <= C10_Artifacts(t)
               /\ \A i \in ups :
                      /\ task[t].calls[i].item \in 1..C10_Artifacts(t)
                      /\ task[t].calls[i].blob_name
                             = _build_blob_name(task[t].calls[i].category,
                                                task[t].calls[i].extension,
                                                task[t].calls[i].now,
                                                task[t].calls[i].unique)
               /\ (\E k \in DOMAIN task[t].logged : task[t].logged[k].type = "AzureError") =>
                      /\ task[t].pc = "raised"
                      /\ task[t].calls[Len(task[t].calls)].op = "upload_blob"
                      /\ Cardinality({k \in DOMAIN task[t].logged :
                                         task[t].logged[k].type = "AzureError"}) = 1
    /\ \A b \in blobs :
           \E i \in CallsOf(b.task, "upload_blob") :
               /\ task[b.task].calls[i].blob_name = b.blob_name
               /\ task[b.task].calls[i].item = b.item

\* an upload has failed and its request has ended with that one upload of the artifact
C10_Witness ==
    \E t \in Tasks :
        /\ \E k \in DOMAIN task[t].logged : task[t].logged[k].type = "AzureError"
        /\ task[t].pc = "raised"
        /\ Cardinality(CallsOf(t, "upload_blob")) >= 1

(***************************************************************************)
(* C11.  The category-to-root mapping.                                     *)
(***************************************************************************)
\* the requests that called _root_for_category and have its answer
C11_Resolved == {t \in Tasks : task[t].tool = "_root_for_category" /\ task[t].pc = "returned"}

\* the root the five known names stand for, any other name standing for itself
C11_RootOf(name) ==
    CASE name \in {"image", "images"} -> config.storage.image_root
      [] name \in {"video", "videos"} -> config.storage.video_root
      [] name = "audio" -> config.storage.audio_root
      [] OTHER -> name

RECURSIVE C11_Slashes(_)
C11_Slashes(n) == IF n = 0 THEN "" ELSE "/" \o C11_Slashes(n - 1)

\* name is category without the slashes at its two ends, and "media" when
\* nothing is left of it or no category was given
C11_NameOf(category, name) ==
    IF category = None \/ \E n \in 0..Len(category) : category = C11_Slashes(n)
    THEN name = "media"
    ELSE /\ name # ""
         /\ CharAt(name, 1) # "/"
         /\ CharAt(name, Len(name)) # "/"
         /\ \E i, j \in 0..Len(category) :
                category = C11_Slashes(i) \o name \o C11_Slashes(j)

\* C11 as stated: image and images resolve to the configured image root, video
\* and videos to the configured video root, audio to the configured audio root,
\* and every other category to its own literal name
C11_LiteralPassThrough ==
    \A t \in C11_Resolved : task[t].result.root = C11_RootOf(task[t].req.category)

\* C11 as amended: the category is first stripped of the slashes at its ends,
\* an empty or absent one becoming "media"; then image and images resolve to the
\* configured image root, video and videos to the video root, audio to the audio
\* root, and any other name to itself
C11_CategoryRootStable ==
    \A t \in C11_Resolved :
        LET category == task[t].req.category
            names == {"media"} \cup
                     (IF category = None THEN {}
                      ELSE {SubSeq(category, i, j) : i, j \in 1..Len(category)})
        IN  \E name \in names :
                /\ C11_NameOf(category, name)
                /\ task[t].result.root = C11_RootOf(name)

\* the singular image resolved to a configured image root that is not "image"
C11_Witness ==
    \E t \in C11_Resolved :
        /\ task[t].req.category = "image"
        /\ task[t].result.root = "img"

(***************************************************************************)
(* C12.  The blob path and the URL of an upload.                           *)
(***************************************************************************)
\* the requests that called AzureBlobUploader.upload
C12_Uploads == {t \in Tasks : task[t].tool = "upload" /\ task[t].calls # <<>>}

\* the place of the last "/" of s, 0 when it has none
C12_LastSlash(s) ==
    LET at == {i \in 1..Len(s) : CharAt(s, i) = "/"}
    IN  IF at = {} THEN 0 ELSE CHOOSE i \in at : \A j \in at : j <= i

C12_AllIn(s, alphabet) == \A i \in 1..Len(s) : IndexIn(CharAt(s, i), alphabet, 1) # 0

\* file is <yyyyMMddTHHmmss>-<32 lowercase hex digits>.<ext>
C12_IsFileName(file, ext) ==
    /\ Len(file) = 15 + 1 + 32 + 1 + Len(ext)
    /\ C12_AllIn(SubSeq(file, 1, 8), "0123456789")
    /\ CharAt(file, 9) = "T"
    /\ C12_AllIn(SubSeq(file, 10, 15), "0123456789")
    /\ CharAt(file, 16) = "-"
    /\ C12_AllIn(SubSeq(file, 17, 48), "0123456789abcdef")
    /\ CharAt(file, 49) = "."
    /\ SubSeq(file, 50, Len(file)) = ext

\* the directory of a path: the prefix, when there is one, then the root
C12_IsDirectory(dir, category) ==
    \E name \in {"media"} \cup (IF category = None THEN {}
                              ELSE {SubSeq(category, i, j) : i, j \in 1..Len(category)}) :
        /\ C11_NameOf(category, name)
        /\ dir = IF config.storage.path_prefix \in {None, ""} THEN C11_RootOf(name)
                 ELSE config.storage.path_prefix \o "/" \o C11_RootOf(name)

C13_Completed ==
    {t \in Tasks : /\ task[t].tool = "generate_video"
                   /\ config.provider = "openai"
                   /\ config.storage.configured
                   /\ task[t].job.status = "completed"}

\* the directory of the video root
C13_VideoDirectory ==
    IF config.storage.path_prefix = None THEN config.storage.video_root \o "/"
    ELSE config.storage.path_prefix \o "/" \o config.storage.video_root \o "/"

\* C13: for a completed video job on the direct backend with storage, every
\* asset handed to storage has the extension and content type of the requested
\* variant (video: mp4, video/mp4; thumbnail: png, image/png; spritesheet: json,
\* application/json) and lies under the video root, and a returned result
\* carries the requested variant and the non-empty URL of that stored asset
C13_VariantDecidesAsset ==
    \A t \in C13_Completed :
        LET variant == task[t].req.variant
            expected == CASE variant = "video" -> <<"mp4", "video/mp4">>
                          [] variant = "thumbnail" -> <<"png", "image/png">>
                          [] variant = "spritesheet" -> <<"json", "application/json">>
                          [] OTHER -> <<"", "">>
        IN  /\ \A i \in CallsOf(t, "upload_blob") :
                   LET call == task[t].calls[i]
                   IN  /\ <<call.extension, call.content_type>> = expected
                       /\ StartsWith(call.blob_name, C13_VideoDirectory)
                       /\ SubSeq(call.blob_name, Len(call.blob_name) - Len(expected[1]),
                                 Len(call.blob_name)) = "." \o expected[1]
            /\ task[t].pc = "returned" =>
                   /\ task[t].result.variant = variant
                   /\ task[t].result.blob_url # None
                   /\ task[t].result.blob_url # ""
                   /\ \E i \in CallsOf(t, "upload_blob"), b \in blobs :
                          /\ b.blob_name = task[t].calls[i].blob_name
                          /\ b.content_type = expected[2]
                          /\ task[t].result.blob_url =
                                 config.storage.public_base_url \o "/" \o b.blob_name

\* the scenario of the specification: seconds=8, size=1280x720,
\* variant=thumbnail has returned the URL of a png under the video root
C13_Witness ==
    \E t \in C13_Completed :
        /\ task[t].pc = "returned"
        /\ task[t].req = [seconds |-> 8, size |-> "1280x720", variant |-> "thumbnail"]
        /\ task[t].result.variant = "thumbnail"
        /\ \E b \in blobs : b.content_type = "image/png" /\ b.task = t

(***************************************************************************)
(* C14.  The response_format of a chat call.                               *)
(***************************************************************************)
\* the chat requests, each with the one provider call it has issued
C14_Chats == {t \in Tasks : task[t].tool = "chat_completion" /\ task[t].calls # <<>>}

\* the word json in any mix of upper and lower case
C14_IsJson(s) ==
    /\ Len(s) = 4
    /\ CharAt(s, 1) \in {"j", "J"}
    /\ CharAt(s, 2) \in {"s", "S"}
    /\ CharAt(s, 3) \in {"o", "O"}
    /\ CharAt(s, 4) \in {"n", "N"}

\* C14 as stated: the string "json" is sent as the structured-output directive,
\* any other non-empty string as a named format of that exact name, and an
\* empty or absent response_format sends no format constraint
C14_OnlyJsonIsDirective ==
    \A t \in C14_Chats :
        LET given == task[t].req.response_format
            sent == task[t].calls[1].response_format
        IN  /\ given = "json" => sent = [type |-> "json_object"]
            /\ given \notin {"json", "", None} => sent = [type |-> given]
            /\ given \in {"", None} => sent = NoParam

\* C14 as amended: the string json in any letter case is sent as the
\* structured-output directive, any other non-empty string as a named format
\* of that exact name, and an empty or absent response_format sends no format
\* constraint
C14_ResponseFormatTranslated ==
    \A t \in C14_Chats :
        LET given == task[t].req.response_format
            sent == task[t].calls[1].response_format
        IN  /\ task[t].calls[1].op = "chat.completions.create"
            /\ Len(task[t].calls) = 1
            /\ given \notin {"", None} /\ C14_IsJson(given) => sent = [type |-> "json_object"]
            /\ given \notin {"", None} /\ ~C14_IsJson(given) => sent = [type |-> given]
            /\ given \in {"", None} => sent = NoParam

\* the scenario of the specification: response_format="json" was dispatched
\* as the directive and the plain reply has come back
C14_Witness ==
    \E t \in C14_Chats :
        /\ task[t].req.response_format = "json"
        /\ task[t].calls[1].response_format = [type |-> "json_object"]
        /\ task[t].pc = "returned"
        /\ task[t].result.text = "plain reply"

(***************************************************************************)
(* C15.  The text of a chat reply.                                         *)
(***************************************************************************)
\* the chat requests that returned, each with the content of the first choice
C15_Replies == {t \in Tasks : task[t].tool = "chat_completion" /\ task[t].pc = "returned"}

\* what one chunk adds to the text; a chunk that is no dict adds its textual
\* representation when others is TRUE and nothing when it is FALSE
C15_Piece(chunk, others) ==
    CASE chunk.dict /\ chunk.type = "text" -> IF chunk.text = None THEN "" ELSE chunk.text
      [] chunk = DictChunk("tool_call", None) -> "{'type': 'tool_call'}"
      [] chunk.dict /\ chunk.type = "tool_call" -> str(chunk)
      [] chunk.dict -> ""
      [] OTHER -> IF others THEN chunk.repr ELSE ""

RECURSIVE C15_Concat(_, _)
C15_Concat(chunks, others) ==
    IF chunks = <<>> THEN ""
    ELSE C15_Piece(chunks[1], others) \o C15_Concat(Tail(chunks), others)

C15_TextIs(others) ==
    \A t \in C15_Replies :
        LET content == task[t].result.raw[1]
            text == task[t].result.text
        IN  /\ content.kind = "None" => text = ""
            /\ content.kind = "str" => text = content.value
            /\ content.kind = "list" => text = C15_Concat(content.chunks, others)

\* C15 as stated: a string reply is the text unchanged, absent content gives
\* the empty string, and a list of chunks gives the in-order concatenation of
\* the texts of the chunks marked text and the textual representations of the
\* tool-call chunks, every other chunk adding nothing
C15_OnlyTextAndToolCalls == C15_TextIs(FALSE)

\* C15 as amended: as stated, except that a chunk that is no mapping adds its
\* textual representation; every other mapping chunk adds nothing
C15_TextExtracted == C15_TextIs(TRUE)

\* a reply of a text chunk followed by a tool call has been rendered
C15_Witness ==
    \E t \in C15_Replies :
        /\ task[t].result.raw[1] =
               ContentList(<<DictChunk("text", "Hello"), DictChunk("tool_call", None)>>)
        /\ task[t].result.text = "Hello{'type': 'tool_call'}"

(***************************************************************************)
(* C16.  Shutdown releases the client and the uploader.                    *)
(***************************************************************************)
\* the shutdown has run to its end: aclose has returned or raised
C16_ShutdownOver == lifespan.pc \in {"done", "raised"}

\* C16: when the shutdown is over, whichever way it went and whatever request
\* was in flight, the client has been closed exactly once and the uploader,
\* when there is one, has been closed exactly once
C16_BothReleasedOnce ==
    C16_ShutdownOver =>
        /\ lifespan.client_aclose = 1
        /\ _blob_uploader => lifespan.uploader_aclose = 1

(***************************************************************************)
(* C17.  No call after the shutdown.                                       *)
(***************************************************************************)
\* C17: once the shutdown has closed the client and the uploader, a request
\* that starts issues no call to the provider (and so none to storage)
C17_NoCallAfterShutdown ==
    [][\A t \in Tasks :
           (lifespan.pc = "done" /\ task[t].pc = "idle") => task'[t].calls = <<>>]_vars

(***************************************************************************)
(* C18.  The order of the steps of one generate_video request.             *)
(***************************************************************************)
C18_Videos == {t \in Tasks : task[t].tool = "generate_video"}

\* the names of the calls request t has issued, in order
C18_Ops(t) == [i \in DOMAIN task[t].calls |-> task[t].calls[i].op]

C18_Steps ==
    <<"videos.create_and_poll", "videos.download_content", "binary.aread", "upload_blob">>

\* C18: the calls of a generate_video request are a prefix of: submit and poll,
\* download, read, upload, each at most once; the download follows a job seen
\* completed and asks for the one requested variant; and a result exists only
\* when the request has returned, after an upload that stored the asset and
\* produced the URL in the result
C18_VideoStepsOrdered ==
    \A t \in C18_Videos :
        LET ops == C18_Ops(t)
        IN  /\ Len(ops) <= 4
            /\ ops = SubSeq(C18_Steps, 1, Len(ops))
            /\ Len(ops) >= 2 =>
                   /\ task[t].job.status = "completed"
                   /\ task[t].calls[2].variant = task[t].req.variant
                   /\ task[t].calls[2].id = task[t].job.id
            /\ task[t].pc # "returned" => task[t].result = NoResult
            /\ task[t].pc = "returned" =>
                   /\ Len(ops) = 4
                   /\ task[t].result.status = "completed"
                   /\ task[t].result.blob_url \notin {None, ""}
                   /\ \E b \in blobs :
                          /\ b.blob_name = task[t].calls[4].blob_name
                          /\ task[t].result.blob_url = blob_url_for(b.blob_name)

\* a video request went through all four steps and returned
C18_Witness ==
    \E t \in C18_Videos :
        /\ task[t].pc = "returned"
        /\ C18_Ops(t) = C18_Steps
        /\ task[t].result.blob_url # None

(***************************************************************************)
(* C19.  generate_image does not roll back.                                *)
(***************************************************************************)
\* the image requests that failed in the loop over response.data, at the item
\* task[t].idx
C19_FailedAtItem ==
    {t \in Tasks : /\ task[t].tool = "generate_image"
                   /\ task[t].pc = "raised"
                   /\ task[t].data # <<>>}

\* C19: when generate_image fails at its k-th item, each of the k-1 items
\* before it has been uploaded once and its blob is still in storage, the
\* request has raised and returned no result, and no item after the k-th has
\* been read or uploaded
C19_NoRollback ==
    \A t \in C19_FailedAtItem :
        LET k == task[t].idx
            uploads == CallsOf(t, "upload_blob")
        IN  /\ Len(task[t].data) = k
            /\ k <= task[t].data_len
            /\ task[t].result = NoResult
            /\ Len(task[t].images) = k - 1
            /\ \A i \in 1..(k - 1) :
                   \E c \in uploads, b \in blobs :
                       /\ task[t].calls[c].item = i
                       /\ b.blob_name = task[t].calls[c].blob_name
                       /\ b.task = t
                       /\ b.item = i
                       /\ task[t].images[i].blob_url = blob_url_for(b.blob_name)
            /\ \A c \in uploads : task[t].calls[c].item <= k
            /\ \A c, d \in uploads :
                   task[t].calls[c].item = task[t].calls[d].item => c = d
            /\ \A b \in blobs : b.task = t => b.item < k

\* the second of two items failed: the first one is in storage, the request
\* raised
C19_Witness ==
    \E t \in C19_FailedAtItem :
        /\ task[t].idx = 2
        /\ task[t].data_len >= 2
        /\ \E b \in blobs : b.task = t /\ b.item = 1
        /\ task[t].result = NoResult

(***************************************************************************)
(* C20.  A missing storage configuration shows at the persistence step.    *)
(***************************************************************************)
\* the media requests
C20_Media ==
    {t \in Tasks : task[t].tool \in {"generate_image", "synthesize_speech", "generate_video"}}

\* the provider calls a request of this tool makes before it persists
C20_ProviderCalls(tool) ==
    CASE tool = "generate_image" -> <<"images.generate">>
      [] tool = "synthesize_speech" -> <<"audio.speech.create", "speech.aread">>
      [] OTHER -> <<"videos.create_and_poll", "videos.download_content", "binary.aread">>

\* C20: without a storage configuration no upload is ever attempted and no
\* blob written; a request that ends with an error about the storage
\* configuration has made all the provider calls of its tool before (for a
\* video: on the direct backend, the job completed); and a request that fails
\* before its first provider call fails for its arguments or its backend, not
\* for the storage
C20_StorageCheckedAtPersistence ==
    ~config.storage.configured =>
        /\ blobs = {}
        /\ \A t \in C20_Media :
               /\ CallsOf(t, "upload_blob") = {}
               /\ (task[t].pc = "raised" /\ NamesStorageConfig(task[t].exc.msg)) =>
                      /\ [i \in DOMAIN task[t].calls |-> task[t].calls[i].op]
                             = C20_ProviderCalls(task[t].tool)
                      /\ ReachedPersistence(t)
                      /\ task[t].tool = "generate_video" =>
                             /\ config.provider = "openai"
                             /\ task[t].job.status = "completed"
               /\ (task[t].pc = "raised" /\ task[t].calls = <<>>) =>
                      /\ ~NamesStorageConfig(task[t].exc.msg)
                      /\ \/ task[t].exc.type = "ValueError"
                         \/ task[t].tool = "generate_video" /\ config.provider = "azure"

\* without storage a video request ran its three provider calls and then
\* raised the storage-not-configured error
C20_Witness ==
    \E t \in C20_Media :
        /\ ~config.storage.configured
        /\ task[t].tool = "generate_video"
        /\ Len(task[t].calls) = 3
        /\ task[t].pc = "raised"
        /\ task[t].exc = RuntimeError(_STORAGE_REQUIRED_MSG)

====
